---- MODULE Spec2Model ----
(***************************************************************************)
(* Model of twitch-search (src/src/main.rs): the credential / token /      *)
(* pagination flow of run and main, the filter predicate Entry::matches,   *)
(* the exclusion list, the entry decoder and the Table renderer.           *)
(*                                                                         *)
(* A Rust String is modelled as a sequence of characters.  A character is  *)
(* a one-element TLA+ string; a non-ASCII character is written by its code *)
(* point ("U+00E9"), so that its UTF-8 length differs from 1.              *)
(* Option<T> is a sequence of length 0 (None) or 1 (Some).                 *)
(***************************************************************************)
EXTENDS Integers, Sequences, FiniteSets, TLC

VARIABLES
    pc,            \* position in main / run
    env,           \* process environment: TWITCH_CLIENT_ID, TWITCH_CLIENT_SECRET, TWITCH_IGNORE
    args,          \* parsed command line (struct Args)
    exclude,       \* run: let exclude = exclusions(args.exclude)
    access_token,  \* run: Option of the token returned by aquire_access_token
    table,         \* run: let mut table: Table<5>
    total,         \* run: let mut total
    page,          \* run: let mut page (Option<String>, the cursor)
    net,           \* HTTP exchanges so far, in order: request and the response it got
    out,           \* standard output, one item per print
    err,           \* standard error, one item per line
    result,        \* value run returned / how it ended
    exit_code,     \* process exit status, <<>> while running
    entry,         \* Entry::matches: self of the latest call
    matched        \* Entry::matches: Option of the latest call's return value

vars == <<pc, env, args, exclude, access_token, table, total, page, net, out,
          err, result, exit_code, entry, matched>>

None == <<>>
Some(x) == <<x>>

(***************************************************************************)
(* Characters and strings                                                  *)
(***************************************************************************)

\* char::is_alphabetic on the characters the model uses
is_alphabetic(c) == c \in {"a", "b", "c", "d", "e", "i", "o", "r", "s", "t", "v", "w",
                           "x", "y", "z", "h", "p", "m", "n", "f",
                           "A", "B", "C", "D", "M", "Y", "O", "Z", "T",
                           "U+00E9", "U+00C9"}

\* char::is_control
is_control(c) == c \in {"\t", "\n"}

\* char::to_lowercase, one character to one character on the model's alphabet
char_to_lowercase(c) ==
    CASE c = "A" -> "a" [] c = "B" -> "b" [] c = "C" -> "c" [] c = "D" -> "d"
      [] c = "M" -> "m" [] c = "Y" -> "y" [] c = "O" -> "o" [] c = "Z" -> "z"
      [] c = "T" -> "t"
      [] c = "U+00C9" -> "U+00E9"
      [] OTHER -> c

\* str::to_lowercase
to_lowercase(s) == [i \in 1..Len(s) |-> char_to_lowercase(s[i])]

\* char::len_utf8
len_utf8(c) == IF c \in {"U+00E9", "U+00C9"} THEN 2 ELSE 1

\* String::len: the length in bytes of the UTF-8 encoding
RECURSIVE str_len(_)
str_len(s) == IF s = <<>> THEN 0 ELSE len_utf8(Head(s)) + str_len(Tail(s))

\* str.chars().count(): the unit the formatting width is measured in
chars_count(s) == Len(s)

\* str::contains(&str): substring search; the empty needle is found at offset 0
str_contains(hay, needle) ==
    \E i \in 0..(Len(hay) - Len(needle)) :
        SubSeq(hay, i + 1, i + Len(needle)) = needle

\* str::split(pred): the pieces between separator characters, empty pieces
\* included; the empty string yields one empty piece.  sep[i] tells whether
\* the predicate holds of s[i].
RECURSIVE split_from(_, _, _, _)
split_from(s, sep, i, cur) ==
    IF i > Len(s) THEN <<cur>>
    ELSE IF sep[i] THEN <<cur>> \o split_from(s, sep, i + 1, <<>>)
    ELSE split_from(s, sep, i + 1, Append(cur, s[i]))

split(s, sep) == split_from(s, sep, 1, <<>>)

\* Vec::contains / slice::contains
vec_contains(v, x) == \E i \in 1..Len(v) : v[i] = x

Digit(d) == CASE d = 0 -> "0" [] d = 1 -> "1" [] d = 2 -> "2" [] d = 3 -> "3"
              [] d = 4 -> "4" [] d = 5 -> "5" [] d = 6 -> "6" [] d = 7 -> "7"
              [] d = 8 -> "8" [] d = 9 -> "9"

\* Display of a non-negative integer
RECURSIVE fmt_nat(_)
fmt_nat(n) == IF n < 10 THEN <<Digit(n)>> ELSE Append(fmt_nat(n \div 10), Digit(n % 10))

\* Display of an i64 / usize: format!("{}", n)
fmt_int(n) == IF n < 0 THEN <<"-">> \o fmt_nat(0 - n) ELSE fmt_nat(n)

\* format!("{:02}", n): zero-padded to two characters, the sign counted
fmt_02(n) == LET s == fmt_int(n) IN
             IF Len(s) >= 2 THEN s ELSE <<"0">> \o s

RECURSIVE concat(_)
concat(ss) == IF ss = <<>> THEN <<>> ELSE Head(ss) \o concat(Tail(ss))

spaces(n) == [i \in 1..n |-> " "]

\* i64 division and remainder, truncating toward zero as Rust's / and % do
trunc_div(a, b) == IF a >= 0 THEN a \div b ELSE 0 - ((0 - a) \div b)
trunc_rem(a, b) == a - b * trunc_div(a, b)

(***************************************************************************)
(* Entry and the filter predicate                                          *)
(***************************************************************************)

\* matches with the whole-word branch testing containment (t is in e) instead of
\* equality (t.eq(e))
matches_substring_in_whole_word(self, whole_word, all, term, ignored_names, lang) ==
    IF vec_contains(ignored_names, to_lowercase(self.display_name)) THEN FALSE
    ELSE IF lang # None /\ self.lang # lang[1] THEN FALSE
    ELSE LET lower_title == to_lowercase(self.title) IN
         IF whole_word
         THEN LET tokens == split(lower_title,
                                  [i \in 1..Len(lower_title) |-> ~is_alphabetic(lower_title[i])])
              IN \E k \in 1..Len(tokens) :
                     \E j \in 1..Len(term) : str_contains(tokens[k], term[j])
         ELSE IF all THEN \A j \in 1..Len(term) : str_contains(lower_title, term[j])
         ELSE \E j \in 1..Len(term) : str_contains(lower_title, term[j])

\* matches with empty terms ignored in substring mode
matches_skipping_empty_terms(self, whole_word, all, term, ignored_names, lang) ==
    IF vec_contains(ignored_names, to_lowercase(self.display_name)) THEN FALSE
    ELSE IF lang # None /\ self.lang # lang[1] THEN FALSE
    ELSE LET lower_title == to_lowercase(self.title) IN
         IF whole_word
         THEN LET tokens == split(lower_title,
                                  [i \in 1..Len(lower_title) |-> ~is_alphabetic(lower_title[i])])
              IN \E k \in 1..Len(tokens) :
                     \E j \in 1..Len(term) : term[j] = tokens[k]
         ELSE IF all THEN \A j \in 1..Len(term) :
                              term[j] # <<>> /\ str_contains(lower_title, term[j])
         ELSE \E j \in 1..Len(term) : term[j] # <<>> /\ str_contains(lower_title, term[j])

\* Entry::matches(&self, whole_word, all, term, ignored_names, lang)
matches(self, whole_word, all, term, ignored_names, lang) ==
    \* if ignored_names.contains(&self.display_name.to_lowercase()) { return false; }
    IF vec_contains(ignored_names, to_lowercase(self.display_name)) THEN FALSE
    \* if let Some(lang) = lang { if &self.lang != lang { return false; } }
    ELSE IF lang # None /\ self.lang # lang[1] THEN FALSE
    ELSE LET lower_title == to_lowercase(self.title) IN
         IF whole_word
         THEN \* for e in title.to_lowercase().split(|c| !c.is_alphabetic())
              \*     if term.iter().any(|t| t.eq(e)) { return true; }
              \* return false;
              LET tokens == split(lower_title,
                                  [i \in 1..Len(lower_title) |-> ~is_alphabetic(lower_title[i])])
              IN \E k \in 1..Len(tokens) :
                     \E j \in 1..Len(term) : term[j] = tokens[k]
         ELSE IF all THEN \A j \in 1..Len(term) : str_contains(lower_title, term[j])
         ELSE \E j \in 1..Len(term) : str_contains(lower_title, term[j])

URL_PREFIX == <<"h", "t", "t", "p", "s", ":", "/", "/", "t", "w", "i", "t", "c", "h",
                ".", "t", "v", "/">>
VIEWERS_SUFFIX == <<" ", "v", "i", "e", "w", "e", "r", "s">>

\* Entry::format_row(self) -> [String; 5]
format_row(self) ==
    << self.lang,
       URL_PREFIX \o self.display_name,
       fmt_int(self.viewer_count) \o VIEWERS_SUFFIX,
       self.live_duration,
       [i \in 1..Len(self.title) |-> IF is_control(self.title[i]) THEN " " ELSE self.title[i]] >>

(***************************************************************************)
(* JSON values and the entry decoder                                       *)
(***************************************************************************)

\* serde_json::Value as far as the program looks at it: t is the kind found
\* under a key ("missing" when the key is absent), s the string, n the number
J_str(s) == [t |-> "str", s |-> s, n |-> 0]
J_int(n) == [t |-> "int", s |-> <<>>, n |-> n]
J_float == [t |-> "float", s |-> <<>>, n |-> 0]
J_null == [t |-> "null", s |-> <<>>, n |-> 0]
J_missing == [t |-> "missing", s |-> <<>>, n |-> 0]

\* Value::get(key).unwrap().as_str().unwrap() succeeds
to_str_ok(v) == v.t = "str"
\* Value::get(key).unwrap().as_i64().unwrap() succeeds
to_num_ok(v) == v.t = "int"

DigitVal(c) == CASE c = "0" -> 0 [] c = "1" -> 1 [] c = "2" -> 2 [] c = "3" -> 3
                 [] c = "4" -> 4 [] c = "5" -> 5 [] c = "6" -> 6 [] c = "7" -> 7
                 [] c = "8" -> 8 [] c = "9" -> 9 [] OTHER -> -1

DATE_PREFIX == <<"1", "9", "7", "0", "-", "0", "1", "-", "0", "1", "T">>
SECONDS_SUFFIX == <<":", "0", "0", "Z">>

\* ds.parse::<DateTime<Utc>>() on timestamps of the form 1970-01-01THH:MM:00Z:
\* Some(minutes since the epoch), or None for Err
parse_datetime(ds) ==
    IF /\ Len(ds) = Len(DATE_PREFIX) + 5 + Len(SECONDS_SUFFIX)
       /\ SubSeq(ds, 1, Len(DATE_PREFIX)) = DATE_PREFIX
       /\ SubSeq(ds, Len(DATE_PREFIX) + 6, Len(ds)) = SECONDS_SUFFIX
       /\ ds[Len(DATE_PREFIX) + 3] = ":"
       /\ \A k \in {1, 2, 4, 5} : DigitVal(ds[Len(DATE_PREFIX) + k]) >= 0
       /\ 10 * DigitVal(ds[Len(DATE_PREFIX) + 1]) + DigitVal(ds[Len(DATE_PREFIX) + 2]) < 24
       /\ DigitVal(ds[Len(DATE_PREFIX) + 4]) < 6
    THEN Some(60 * (10 * DigitVal(ds[Len(DATE_PREFIX) + 1]) + DigitVal(ds[Len(DATE_PREFIX) + 2]))
              + 10 * DigitVal(ds[Len(DATE_PREFIX) + 4]) + DigitVal(ds[Len(DATE_PREFIX) + 5]))
    ELSE None

\* to_instant(ds), with now the value of Utc::now() in minutes since the epoch
to_instant(ds, now) ==
    LET val == parse_datetime(ds) IN
    IF val = None THEN <<>>
    ELSE LET dur == now - val[1] IN
         fmt_02(trunc_div(dur, 60)) \o <<":">> \o fmt_02(trunc_rem(dur, 60))

\* whether Entry::from(&Value) returns: every unwrap() in to_str!/to_num! succeeds
Entry_from_ok(value) ==
    /\ to_str_ok(value.language)
    /\ to_str_ok(value.user_name)
    /\ to_str_ok(value.title)
    /\ to_num_ok(value.viewer_count)
    /\ to_str_ok(value.started_at)

\* impl From<&Value> for Entry
Entry_from(value, now) ==
    [ lang |-> value.language.s,
      display_name |-> value.user_name.s,
      title |-> value.title.s,
      viewer_count |-> value.viewer_count.n,
      live_duration |-> to_instant(value.started_at.s, now) ]

(***************************************************************************)
(* Excluded names                                                          *)
(***************************************************************************)

\* exclusions without the str::to_lowercase of the TWITCH_IGNORE names
exclusions_env_not_lowercased(exclude_arg, ignore_var) ==
    LET excluded == IF exclude_arg = None THEN <<>>
                    ELSE [i \in 1..Len(exclude_arg[1]) |-> to_lowercase(exclude_arg[1][i])]
    IN IF ignore_var = None THEN excluded
       ELSE excluded \o split(ignore_var[1], [i \in 1..Len(ignore_var[1]) |-> ignore_var[1][i] = ","])

\* exclusions(exclude): ignore_var is env::var("TWITCH_IGNORE").ok()
exclusions(exclude_arg, ignore_var) ==
    LET excluded == IF exclude_arg = None THEN <<>>
                    ELSE [i \in 1..Len(exclude_arg[1]) |-> to_lowercase(exclude_arg[1][i])]
    IN IF ignore_var = None THEN excluded
       ELSE LET parts == split(ignore_var[1],
                               [i \in 1..Len(ignore_var[1]) |-> ignore_var[1][i] = ","])
            IN excluded \o [i \in 1..Len(parts) |-> to_lowercase(parts[i])]

(***************************************************************************)
(* Table<N>                                                                *)
(***************************************************************************)

\* run: Table<5>
N == 5

max(a, b) == IF a >= b THEN a ELSE b

\* Table::new
Table_new == [ align |-> [i \in 1..N |-> "Left"],
               widths |-> [i \in 1..N |-> 0],
               rows |-> <<>> ]

\* Table::len
Table_len(t) == Len(t.rows)

\* Table::set_align(column, align), column counted from 0
Table_set_align(t, column, align) == [t EXCEPT !.align[column + 1] = align]

\* push without the take(N - 1): the last column is measured too
Table_push_all_columns(t, row) ==
    [t EXCEPT !.widths = [i \in 1..N |-> max(t.widths[i], str_len(row[i]))],
              !.rows = Append(t.rows, row)]

\* push that inserts the row in front of the rows
Table_push_front(t, row) ==
    [t EXCEPT !.widths = [i \in 1..N |-> IF i <= N - 1 THEN max(t.widths[i], str_len(row[i]))
                                         ELSE t.widths[i]],
              !.rows = <<row>> \o t.rows]

\* Table::push(row): widths of the first N - 1 columns, measured by String::len
Table_push(t, row) ==
    [t EXCEPT !.widths = [i \in 1..N |-> IF i <= N - 1 THEN max(t.widths[i], str_len(row[i]))
                                         ELSE t.widths[i]],
              !.rows = Append(t.rows, row)]

\* format!("{cell:<width$}"), "{cell:^width$}", "{cell:>width$}": the string
\* is padded with spaces up to width characters (chars().count()), and is
\* never truncated
pad(cell, width, align) ==
    LET padding == IF chars_count(cell) >= width THEN 0 ELSE width - chars_count(cell) IN
    CASE align = "Left" -> cell \o spaces(padding)
      [] align = "Right" -> spaces(padding) \o cell
      [] align = "Center" -> spaces(padding \div 2) \o cell \o spaces((padding + 1) \div 2)

SEPARATOR == <<" ", "|", " ">>

\* one row as Table::print writes it: N - 1 padded cells, each followed by
\* " | ", then the last cell as it is
print_row(t, row) ==
    concat([i \in 1..(N - 1) |-> pad(row[i], t.widths[i], t.align[i]) \o SEPARATOR]) \o row[N]

\* Table::print: the lines written, in order
Table_print(t) == [k \in 1..Len(t.rows) |-> print_row(t, t.rows[k])]

(***************************************************************************)
(* Errors                                                                  *)
(***************************************************************************)

\* #[error("...")] of AccessTokenError and AppError: the Display text of an
\* error value ({0}, the text of the wrapped error, is left as it is written)
error_display(kind) ==
    CASE kind = "MissingClientId" ->
             "Client id missing. Please set the TWITCH_CLIENT_ID environment variable."
      [] kind = "MissingClientSecret" ->
             "Client secret missing. Please set the TWITCH_CLIENT_SECRET environment variable."
      [] kind = "AccessToken.RequestError" -> "Failed to get acccess token: {0}"
      [] kind = "AccessToken.ReadError" -> "Failed to read acccess token: {0}"
      [] kind = "ParseAccessToken" -> "Failed to parse acccess token."
      [] kind = "FetchStreams" -> "Failed to get streams: {0}"
      [] kind = "ReadStreams" -> "Failed to read streams: {0}"
      [] kind = "ParseJson" -> "Failed to parse json."

Running == [tag |-> "Running", error |-> ""]
Ok == [tag |-> "Ok", error |-> ""]
Err(kind) == [tag |-> "Err", error |-> kind]
Panicked == [tag |-> "Panic", error |-> "called Option::unwrap() on a None value"]

(***************************************************************************)
(* fetch_streams                                                           *)
(***************************************************************************)

\* An HTTP response as the program reads it.  status: "ok", "request_error"
\* (ureq::Error from send_form / call) or "read_error" (into_json fails);
\* cursor: what is found at pagination.cursor; data: kind of the data field
\* ("array", "missing", "not_array") and the array's elements;
\* access_token: what is found at access_token.
Response(status, cursor, data_kind, items, tok) ==
    [status |-> status, cursor |-> cursor, data_kind |-> data_kind, items |-> items,
     access_token |-> tok]

\* fetch_streams that answers a missing or non-array data field with an empty
\* last page instead of Err(ParseJson)
fetch_streams_silent_end(client_id, resp, now) ==
    IF client_id = None THEN [tag |-> "Err", error |-> "MissingClientId", entries |-> <<>>, pagination |-> None]
    ELSE IF resp.status = "request_error"
    THEN [tag |-> "Err", error |-> "FetchStreams", entries |-> <<>>, pagination |-> None]
    ELSE IF resp.status = "read_error"
    THEN [tag |-> "Err", error |-> "ReadStreams", entries |-> <<>>, pagination |-> None]
    ELSE IF resp.data_kind # "array"
    THEN [tag |-> "Ok", error |-> "", entries |-> <<>>, pagination |-> None]
    ELSE IF \E i \in 1..Len(resp.items) : ~Entry_from_ok(resp.items[i])
    THEN [tag |-> "Panic", error |-> Panicked.error, entries |-> <<>>, pagination |-> None]
    ELSE [tag |-> "Ok", error |-> "",
          entries |-> [i \in 1..Len(resp.items) |-> Entry_from(resp.items[i], now)],
          pagination |-> IF resp.cursor.t = "str" THEN Some(resp.cursor.s) ELSE None]

\* fetch_streams(access_token, after), given the response the request gets:
\* Ok((data, pagination)), Err(e), or a panic in Entry::from
fetch_streams(client_id, resp, now) ==
    \* env::var("TWITCH_CLIENT_ID").map_err(|_| MissingClientId)?
    IF client_id = None
    THEN [tag |-> "Err", error |-> "MissingClientId", entries |-> <<>>, pagination |-> None]
    \* agent.get(&url)...call()?
    ELSE IF resp.status = "request_error"
    THEN [tag |-> "Err", error |-> "FetchStreams", entries |-> <<>>, pagination |-> None]
    \* resp.into_json()?
    ELSE IF resp.status = "read_error"
    THEN [tag |-> "Err", error |-> "ReadStreams", entries |-> <<>>, pagination |-> None]
    \* match json.get("data") { Some(Value::Array(a)) => ..., _ => Err(AppError::ParseJson)? }
    ELSE IF resp.data_kind # "array"
    THEN [tag |-> "Err", error |-> "ParseJson", entries |-> <<>>, pagination |-> None]
    \* a.iter().map(Into::into): unwrap() of a missing or ill-typed field panics
    ELSE IF \E i \in 1..Len(resp.items) : ~Entry_from_ok(resp.items[i])
    THEN [tag |-> "Panic", error |-> Panicked.error, entries |-> <<>>, pagination |-> None]
    ELSE [tag |-> "Ok", error |-> "",
          entries |-> [i \in 1..Len(resp.items) |-> Entry_from(resp.items[i], now)],
          \* json.get("pagination").and_then(get("cursor")).and_then(as_str)
          pagination |-> IF resp.cursor.t = "str" THEN Some(resp.cursor.s) ELSE None]

\* run: if entry.matches(word_boundary, all, &search_terms, &exclude, &lang)
\*          { table.push(entry.format_row()); }
filter_entry(t, e, a, excluded) ==
    IF matches(e, a.word, a.all, a.term, excluded, a.lang)
    THEN Table_push(t, format_row(e))
    ELSE t

\* run: for entry in entries { ... }
RECURSIVE filter_entries(_, _, _, _)
filter_entries(t, entries, a, excluded) ==
    IF entries = <<>> THEN t
    ELSE filter_entries(filter_entry(t, Head(entries), a, excluded), Tail(entries), a, excluded)

(***************************************************************************)
(* Inputs the model draws from                                             *)
(***************************************************************************)

S_en == <<"e", "n">>
S_fr == <<"f", "r">>
S_Bob == <<"B", "o", "b">>
S_BOB == <<"B", "O", "B">>
S_amy == <<"a", "m", "y">>
S_Eva == <<"U+00C9", "v", "a">>
S_eva == <<"U+00E9", "v", "a">>
S_ab == <<"a", "b">>
S_abc == <<"a", "b", "c">>
S_ABC == <<"A", "B", "C">>
S_dabc == <<"d", "a", "b", "c">>
S_abc_123_abc == <<"a", "b", "c", " ", "1", "2", "3", " ", "a", "b", "c">>
S_a_tab_b == <<"a", "\t", "b">>
S_lead == <<" ", "a", "b">>
S_zz == <<"z", "z">>
S_amy_Bob == <<"a", "m", "y", ",", "B", "o", "b">>
S_amy_zz == <<"a", "m", "y", ",", "z", "z">>
S_sp_bob == <<"a", "m", "y", ",", " ", "b", "o", "b">>
S_id == <<"i", "d">>
S_secret == <<"s", "e", "c", "r", "e", "t">>
S_token == <<"t", "o", "k">>
S_c1 == <<"c", "1">>
S_started == DATE_PREFIX \o <<"0", "0", ":", "1", "0">> \o SECONDS_SUFFIX
S_not_a_date == <<"x">>

\* values Utc::now() takes, in minutes since the epoch
NowValues == {100}

RawStream(language, user_name, title, viewer_count, started_at) ==
    [language |-> language, user_name |-> user_name, title |-> title,
     viewer_count |-> viewer_count, started_at |-> started_at]

R_bob == RawStream(J_str(S_en), J_str(S_Bob), J_str(S_abc_123_abc), J_int(5), J_str(S_started))
R_amy == RawStream(J_str(S_fr), J_str(S_amy), J_str(S_ABC), J_int(12), J_str(S_not_a_date))
R_eva == RawStream(J_str(S_en), J_str(S_Eva), J_str(S_a_tab_b), J_int(0), J_str(S_started))
R_no_language == RawStream(J_null, J_str(S_amy), J_str(S_ab), J_int(1), J_str(S_started))
R_no_name == RawStream(J_str(S_en), J_int(7), J_str(S_ab), J_int(1), J_str(S_started))
R_no_title == RawStream(J_str(S_en), J_str(S_amy), J_missing, J_int(1), J_str(S_started))
R_no_viewers == RawStream(J_str(S_en), J_str(S_amy), J_str(S_ab), J_str(<<"5">>), J_str(S_started))
R_float_viewers == RawStream(J_str(S_en), J_str(S_amy), J_str(S_ab), J_float, J_str(S_started))

\* data arrays of well-formed records
GoodPages == { <<>>, <<R_bob>>, <<R_amy, R_bob>>, <<R_bob, R_eva, R_bob>> }

\* data arrays holding a record Entry::from cannot decode
BadPages == { <<R_no_language>>, <<R_bob, R_no_name>>, <<R_no_title, R_amy>>,
              <<R_no_viewers>>, <<R_amy, R_float_viewers>> }

\* what a response carries at pagination.cursor
Cursors == { J_missing, J_null, J_str(<<>>), J_str(S_c1) }

\* responses of the listing endpoint
ListingResponses ==
    { Response("request_error", J_missing, "missing", <<>>, J_missing),
      Response("read_error", J_missing, "missing", <<>>, J_missing) }
    \cup { Response("ok", c, k, <<>>, J_missing) : c \in Cursors, k \in {"missing", "not_array"} }
    \cup { Response("ok", c, "array", d, J_missing) : c \in Cursors, d \in GoodPages \cup BadPages }

\* responses of the token endpoint
TokenResponses ==
    { Response("request_error", J_missing, "missing", <<>>, J_missing),
      Response("read_error", J_missing, "missing", <<>>, J_missing),
      Response("ok", J_missing, "missing", <<>>, J_missing),
      Response("ok", J_missing, "missing", <<>>, J_int(1)),
      Response("ok", J_missing, "missing", <<>>, J_str(S_token)) }

Environments ==
    [ TWITCH_CLIENT_ID : {None, Some(S_id)},
      TWITCH_CLIENT_SECRET : {None, Some(S_secret)},
      TWITCH_IGNORE : {None, Some(S_amy_zz)} ]

\* command lines run is started with
RunArgs ==
    { [term |-> << <<>> >>, exclude |-> None, lang |-> None, all |-> FALSE, word |-> FALSE],
      [term |-> <<S_abc>>, exclude |-> Some(<<S_BOB>>), lang |-> None, all |-> FALSE, word |-> TRUE],
      [term |-> <<S_ab, S_abc>>, exclude |-> None, lang |-> Some(S_en), all |-> TRUE, word |-> FALSE] }

\* number of listing requests the model follows
MaxPages == 3

(***************************************************************************)
(* main and run                                                            *)
(***************************************************************************)

Exchange(req, after, resp) == [req |-> req, after |-> after, resp |-> resp]

Listing == SelectSeq(net, LAMBDA x : x.req = "streams")

Line(kind, text) == [kind |-> kind, text |-> text]

\* {:?} of Vec<String> (for strings without characters Debug escapes)
RECURSIVE fmt_debug_items(_)
fmt_debug_items(v) ==
    IF v = <<>> THEN <<>>
    ELSE <<"\"">> \o Head(v) \o <<"\"">>
         \o (IF Len(v) > 1 THEN <<",", " ">> ELSE <<>>) \o fmt_debug_items(Tail(v))

fmt_debug_vec(v) == <<"[">> \o fmt_debug_items(v) \o <<"]">>

\* println!("Done ({matched}/{total})")
done_line(m, n) == <<"D", "o", "n", "e", " ", "(">> \o fmt_int(m) \o <<"/">> \o fmt_int(n) \o <<")">>

Init ==
    /\ pc = "start"
    /\ env \in Environments
    /\ args \in RunArgs
    /\ exclude = <<>>
    /\ access_token = None
    /\ table = Table_new
    /\ total = 0
    /\ page = None
    /\ net = <<>>
    /\ out = <<>>
    /\ err = <<>>
    /\ result = Running
    /\ exit_code = None
    /\ entry = None
    /\ matched = None

\* run, up to the call of aquire_access_token
Start ==
    /\ pc = "start"
    /\ exclude' = exclusions(args.exclude, env.TWITCH_IGNORE)
    /\ out' = Append(out, Line("searching", fmt_debug_vec(args.term)))
    /\ pc' = "client_id"
    /\ UNCHANGED <<env, args, access_token, table, total, page, net, err, result,
                   exit_code, entry, matched>>

\* aquire_access_token going on to the request without the client secret
ReadClientSecret_unchecked ==
    /\ pc = "client_secret"
    /\ pc' = "token"
    /\ UNCHANGED <<env, args, exclude, access_token, table, total, page, net, out, err,
                   result, exit_code, entry, matched>>

\* aquire_access_token: env::var("TWITCH_CLIENT_ID").map_err(..)?
ReadClientId ==
    /\ pc = "client_id"
    /\ IF env.TWITCH_CLIENT_ID = None
       THEN result' = Err("MissingClientId") /\ pc' = "returned"
       ELSE result' = result /\ pc' = "client_secret"
    /\ UNCHANGED <<env, args, exclude, access_token, table, total, page, net, out, err,
                   exit_code, entry, matched>>

\* aquire_access_token: env::var("TWITCH_CLIENT_SECRET").map_err(..)?
ReadClientSecret ==
    /\ pc = "client_secret"
    /\ IF env.TWITCH_CLIENT_SECRET = None
       THEN result' = Err("MissingClientSecret") /\ pc' = "returned"
       ELSE result' = result /\ pc' = "token"
    /\ UNCHANGED <<env, args, exclude, access_token, table, total, page, net, out, err,
                   exit_code, entry, matched>>

\* aquire_access_token: the POST and the reading of its answer; on success
\* run goes on to set up the table, total and page
RequestToken ==
    /\ pc = "token"
    /\ \E resp \in TokenResponses :
        /\ net' = Append(net, Exchange("token", None, resp))
        /\ IF resp.status = "request_error"
           THEN result' = Err("AccessToken.RequestError") /\ pc' = "returned"
                /\ UNCHANGED <<access_token, table, total, page>>
           ELSE IF resp.status = "read_error"
           THEN result' = Err("AccessToken.ReadError") /\ pc' = "returned"
                /\ UNCHANGED <<access_token, table, total, page>>
           ELSE IF resp.access_token.t # "str"
           THEN result' = Err("ParseAccessToken") /\ pc' = "returned"
                /\ UNCHANGED <<access_token, table, total, page>>
           ELSE /\ access_token' = Some(resp.access_token.s)
                /\ table' = Table_set_align(Table_set_align(Table_new, 2, "Right"), 3, "Right")
                /\ total' = 0
                /\ page' = None
                /\ result' = result
                /\ pc' = "loop"
    /\ UNCHANGED <<env, args, exclude, out, err, exit_code, entry, matched>>

\* one turn of the loop of run: fetch_streams(&access_token, page) and what
\* the loop does with its result
LoopIteration ==
    /\ pc = "loop"
    /\ Len(Listing) < MaxPages
    /\ \E resp \in ListingResponses, now \in NowValues, flushed \in BOOLEAN :
        LET r == fetch_streams(env.TWITCH_CLIENT_ID, resp, now) IN
        /\ net' = Append(net, Exchange("streams", page, resp))
        /\ CASE r.tag = "Err" ->
                  /\ result' = Err(r.error)
                  /\ pc' = "returned"
                  /\ UNCHANGED <<table, total, page, out, err, exit_code>>
             [] r.tag = "Panic" ->
                  \* the panic unwinds through run and main
                  /\ result' = Panicked
                  /\ err' = Append(err, Line("panic", Panicked.error))
                  /\ exit_code' = Some(101)
                  /\ pc' = "exited"
                  /\ UNCHANGED <<table, total, page, out>>
             [] r.tag = "Ok" /\ ~flushed ->
                  \* std::io::stdout().flush()?
                  /\ result' = Err("ReadStreams")
                  /\ pc' = "returned"
                  /\ UNCHANGED <<table, total, page, out, err, exit_code>>
             [] r.tag = "Ok" /\ flushed ->
                  /\ out' = Append(out, Line("dot", <<".">>))
                  /\ total' = total + Len(r.entries)
                  /\ page' = r.pagination
                  /\ table' = filter_entries(table, r.entries, args, exclude)
                  /\ pc' = IF r.pagination = None THEN "finish" ELSE "loop"
                  /\ UNCHANGED <<result, err, exit_code>>
    /\ UNCHANGED <<env, args, exclude, access_token, entry, matched>>

\* run after the loop: the empty line, the table, the summary
Finish ==
    /\ pc = "finish"
    /\ out' = out \o <<Line("newline", <<>>)>>
                  \o [k \in 1..Table_len(table) |-> Line("row", Table_print(table)[k])]
                  \o <<Line("done", done_line(Table_len(table), total))>>
    /\ result' = Ok
    /\ pc' = "returned"
    /\ UNCHANGED <<env, args, exclude, access_token, table, total, page, net, err,
                   exit_code, entry, matched>>

\* main: run().unwrap_or_else(|e| { eprintln!("Error: {e}"); exit(1) })
MainExit ==
    /\ pc = "returned"
    /\ IF result.tag = "Ok"
       THEN exit_code' = Some(0) /\ err' = err
       ELSE /\ err' = Append(err, Line("Error: ", error_display(result.error)))
            /\ exit_code' = Some(1)
    /\ pc' = "exited"
    /\ UNCHANGED <<env, args, exclude, access_token, table, total, page, net, out,
                   result, entry, matched>>

Next == Start \/ ReadClientId \/ ReadClientSecret \/ RequestToken \/ LoopIteration
        \/ Finish \/ MainExit

Spec == Init /\ [][Next]_vars

(***************************************************************************)
(* Properties of main and run (specification Spec)                         *)
(***************************************************************************)

\* the response is a successful listing response: the request and the read
\* succeed, data is an array and every record of it is well formed
WellFormedRecord(v) ==
    /\ v.language.t = "str" /\ v.user_name.t = "str" /\ v.title.t = "str"
    /\ v.viewer_count.t = "int" /\ v.started_at.t = "str"

SuccessfulPage(resp) ==
    /\ resp.status = "ok"
    /\ resp.data_kind = "array"
    /\ \A i \in 1..Len(resp.items) : WellFormedRecord(resp.items[i])

\* the cursor field of a response: a non-empty string ("carried"), the empty
\* string ("empty"), no such field ("absent"), or a value that is no string
CursorKind(resp) ==
    IF resp.cursor.t = "str" THEN (IF resp.cursor.s = <<>> THEN "empty" ELSE "carried")
    ELSE IF resp.cursor.t = "missing" THEN "absent"
    ELSE "other"

RECURSIVE SumEntries(_)
SumEntries(L) == IF L = <<>> THEN 0 ELSE Len(Head(L).resp.items) + SumEntries(Tail(L))

Written(kind) == SelectSeq(out, LAMBDA x : x.kind = kind)

\* the loop has stopped after the pages of Listing, with this total
StoppedWithTotal(n) ==
    /\ pc \in {"finish", "returned", "exited"}
    /\ total = n
    /\ pc # "finish" => Written("done") = <<Line("done", done_line(Table_len(table), n))>>

\* every request of Listing carries the cursor of the response before it
CursorsFollowed ==
    \A i \in 1..Len(Listing) :
        Listing[i].after = IF i = 1 THEN None ELSE Some(Listing[i - 1].resp.cursor.s)

\* the responses so far are n successful ones, all but the last carrying a cursor
PagesThenLast(last_kinds) ==
    /\ Len(Listing) >= 1
    /\ \A i \in 1..Len(Listing) : SuccessfulPage(Listing[i].resp)
    /\ \A i \in 1..(Len(Listing) - 1) : CursorKind(Listing[i].resp) = "carried"
    /\ CursorKind(Listing[Len(Listing)].resp) \in last_kinds
    /\ result.tag # "Err"

\* C1: whenever the listing responses so far are n >= 1 successful ones of
\* which the first n-1 carry a cursor and the last has its cursor absent or
\* empty (the empty string), the loop has stopped after exactly these n
\* calls, the total reported is the sum of the n pages' entry counts, the
\* first request carried no cursor and each later one the cursor of the
\* response before it.
C1_StopsOnAbsentOrEmptyCursor ==
    PagesThenLast({"absent", "empty"})
        => StoppedWithTotal(SumEntries(Listing)) /\ CursorsFollowed

\* C1, the part the code does: the same with the last cursor absent
C1_StopsOnAbsentCursor ==
    PagesThenLast({"absent"}) => StoppedWithTotal(SumEntries(Listing)) /\ CursorsFollowed

\* C1, where the code goes on: an empty cursor on the last page, and the
\* loop is about to request a further page with after= the empty string
C1_EmptyCursorGoesOn ==
    /\ PagesThenLast({"empty"})
    /\ pc = "loop"
    /\ page = Some(<<>>)

\* what C2 calls a failure of fetch_streams on a page
FailedPage(resp) == resp.status # "ok" \/ resp.data_kind # "array"

\* C2: if fetch_streams fails on page k (request failure, unreadable body,
\* data missing or not an array), then whatever the pages before it held,
\* run returns that error, page k is the last page requested, no table row
\* and no Done line is ever written, and the exit status is not zero.
C2_AbortOnFailedPage ==
    \A k \in 1..Len(Listing) :
        FailedPage(Listing[k].resp) =>
            /\ k = Len(Listing)
            /\ pc \in {"returned", "exited"}
            /\ result = Err(IF Listing[k].resp.status = "request_error" THEN "FetchStreams"
                            ELSE IF Listing[k].resp.status = "read_error" THEN "ReadStreams"
                            ELSE "ParseJson")
            /\ Written("row") = <<>>
            /\ Written("done") = <<>>
            /\ pc = "returned" => exit_code = None /\ ENABLED MainExit
            /\ pc = "exited" => exit_code = Some(1)

\* C2 witness: the third page fails after two pages that put rows in the table
C2_Witness ==
    /\ Len(Listing) = 3
    /\ FailedPage(Listing[3].resp)
    /\ Listing[3].resp.status = "ok"
    /\ Table_len(table) >= 2
    /\ pc = "exited"

\* C7: a page holding a record that lacks a required field or has it with
\* the wrong type makes run return an Err: the record is not skipped, no
\* table is written, and main reports the error as one "Error: ..." line on
\* standard error with a non-zero exit status.
C7_MalformedRecordIsErr ==
    \A k \in 1..Len(Listing) :
        ( /\ Listing[k].resp.status = "ok"
          /\ Listing[k].resp.data_kind = "array"
          /\ \E i \in 1..Len(Listing[k].resp.items) : ~WellFormedRecord(Listing[k].resp.items[i]) )
        => /\ k = Len(Listing)
           /\ result.tag = "Err"
           /\ Written("row") = <<>> /\ Written("done") = <<>>
           /\ pc = "exited" => /\ Len(err) = 1 /\ err[1].kind = "Error: "
                               /\ exit_code # Some(0)

\* C7, what the code does: the unwrap() in Entry::from panics
C7_MalformedRecordPanics ==
    \A k \in 1..Len(Listing) :
        ( /\ Listing[k].resp.status = "ok"
          /\ Listing[k].resp.data_kind = "array"
          /\ \E i \in 1..Len(Listing[k].resp.items) : ~WellFormedRecord(Listing[k].resp.items[i]) )
        => /\ k = Len(Listing)
           /\ result = Panicked
           /\ Written("row") = <<>> /\ Written("done") = <<>>
           /\ pc = "exited" /\ exit_code = Some(101)
           /\ err = <<Line("panic", Panicked.error)>>

\* C8: with the client id or the client secret absent from the environment
\* no HTTP request is ever sent and run returns the missing-credential
\* error; a token request is sent only with both credentials read, it is
\* the first request, and a listing request is sent only after the token
\* request returned a token.
C8_CredentialsBeforeNetwork ==
    /\ (env.TWITCH_CLIENT_ID = None \/ env.TWITCH_CLIENT_SECRET = None) =>
           /\ net = <<>>
           /\ pc \in {"returned", "exited"} =>
                  result = Err(IF env.TWITCH_CLIENT_ID = None THEN "MissingClientId"
                               ELSE "MissingClientSecret")
    /\ \A i \in 1..Len(net) :
           /\ net[i].req = "token" =>
                  i = 1 /\ env.TWITCH_CLIENT_ID # None /\ env.TWITCH_CLIENT_SECRET # None
           /\ net[i].req = "streams" =>
                  /\ i > 1
                  /\ net[1].req = "token"
                  /\ net[1].resp.status = "ok" /\ net[1].resp.access_token.t = "str"
                  /\ access_token = Some(net[1].resp.access_token.s)

\* C8 witness: the secret is missing, run has returned, nothing was sent
C8_Witness ==
    /\ env.TWITCH_CLIENT_ID # None
    /\ env.TWITCH_CLIENT_SECRET = None
    /\ pc = "exited"
    /\ result = Err("MissingClientSecret")
    /\ net = <<>>

\* the records of all pages, in page order and within a page in array order
RECURSIVE AllRecords(_)
AllRecords(L) == IF L = <<>> THEN <<>> ELSE Head(L).resp.items \o AllRecords(Tail(L))

\* the records that pass the filter, in order
Passing == SelectSeq(AllRecords(Listing),
                     LAMBDA v : matches(Entry_from(v, 0), args.word, args.all, args.term,
                                        exclude, args.lang))

\* C10: the table never holds more rows than total; when run has completed
\* successfully the rows written are the entries of all pages that pass
\* Entry::matches, each once, in page order and within a page in array
\* order; rows and summary are written only after the last page, and the
\* summary gives matched = rows written and total = entries decoded.
C10_FilteredSubsequence ==
    /\ Table_len(table) <= total
    /\ (Written("row") # <<>> \/ Written("done") # <<>>) =>
           /\ pc \in {"returned", "exited"} /\ result = Ok
           /\ Len(Written("dot")) = Len(Listing)
    /\ result = Ok =>
           /\ Len(Written("row")) = Len(Passing)
           /\ \A k \in 1..Len(Passing) :
                  \E now \in NowValues :
                      /\ table.rows[k] = format_row(Entry_from(Passing[k], now))
                      /\ Written("row")[k].text = print_row(table, table.rows[k])
           /\ out[Len(out)] = Line("done", done_line(Len(Passing), Len(AllRecords(Listing))))
           /\ \A i \in 1..Len(out) : \A j \in 1..Len(out) :
                  out[i].kind = "dot" /\ out[j].kind \in {"row", "done"} => i < j

\* C10 witness: a successful run over three pages in which an entry was
\* filtered out and the same entry was written more than once
C10_Witness ==
    /\ result = Ok
    /\ Len(Listing) = 3
    /\ Len(Passing) >= 3
    /\ Len(Passing) < Len(AllRecords(Listing))
    /\ \E i \in 1..Len(Passing) : \E j \in 1..Len(Passing) :
           i < j /\ Passing[i] = Passing[j]
    /\ \E i \in 1..Len(Passing) : \E j \in 1..Len(Passing) : Passing[i] # Passing[j]

(***************************************************************************)
(* The filter on its own (specification SpecFilter): exclusions builds the *)
(* list, then the body of the loop of run is applied to one entry and a    *)
(* new table, for entries and command lines of a wider range.              *)
(***************************************************************************)

FilterTitles == { <<>>, S_ab, S_abc, S_ABC, S_dabc, S_abc_123_abc, S_a_tab_b, S_lead }

FilterEntries ==
    [ lang : {S_en, S_fr},
      display_name : {S_Bob, S_amy, S_Eva, <<>>},
      title : FilterTitles,
      viewer_count : {5},
      live_duration : {<<>>} ]

\* term is never the empty list: clap gives [""] when no term is passed
FilterArgs ==
    [ term : { << <<>> >>, <<S_abc>>, <<S_ab>>, <<S_ab, S_zz>>, <<S_zz, S_abc>>, <<S_ABC>>,
               << <<>>, S_zz >> },
      exclude : { None, Some(<<S_BOB>>), Some(<<S_amy, S_eva>>) },
      lang : { None, Some(S_en) },
      all : BOOLEAN,
      word : BOOLEAN ]

FilterEnvironments ==
    [ TWITCH_CLIENT_ID : {Some(S_id)},
      TWITCH_CLIENT_SECRET : {Some(S_secret)},
      TWITCH_IGNORE : {None, Some(<<>>), Some(S_amy_Bob), Some(S_sp_bob)} ]

FilterInit ==
    /\ pc = "exclusions"
    /\ env \in FilterEnvironments
    /\ args \in FilterArgs
    /\ exclude = <<>>
    /\ access_token = None
    /\ table = Table_new
    /\ total = 0
    /\ page = None
    /\ net = <<>>
    /\ out = <<>>
    /\ err = <<>>
    /\ result = Running
    /\ exit_code = None
    /\ entry = None
    /\ matched = None

\* run: let exclude = exclusions(args.exclude)
BuildExclusions ==
    /\ pc = "exclusions"
    /\ exclude' = exclusions(args.exclude, env.TWITCH_IGNORE)
    /\ pc' = "filter"
    /\ UNCHANGED <<env, args, access_token, table, total, page, net, out, err, result,
                   exit_code, entry, matched>>

\* the body of for entry in entries, on a table that holds no row yet
FilterEntry ==
    /\ pc = "filter"
    /\ \E e \in FilterEntries :
        /\ entry' = Some(e)
        /\ matched' = Some(matches(e, args.word, args.all, args.term, exclude, args.lang))
        /\ table' = filter_entry(Table_new, e, args, exclude)
    /\ pc' = "filtered"
    /\ UNCHANGED <<env, args, exclude, access_token, total, page, net, out, err,
                   result, exit_code>>

FilterNext == BuildExclusions \/ FilterEntry

SpecFilter == FilterInit /\ [][FilterNext]_vars

\* s[i..j] lies between two commas (or ends) of s and holds no comma
CommaPiece(s, i, j) ==
    /\ \A k \in i..j : s[k] # ","
    /\ i = 1 \/ s[i - 1] = ","
    /\ j = Len(s) \/ s[j + 1] = ","

\* the names given for exclusion: the -x names and the comma-separated
\* pieces of TWITCH_IGNORE
GivenExclusions ==
    (IF args.exclude = None THEN {} ELSE {args.exclude[1][i] : i \in 1..Len(args.exclude[1])})
    \cup (IF env.TWITCH_IGNORE = None THEN {}
          ELSE LET s == env.TWITCH_IGNORE[1] IN
               {SubSeq(s, i, j) : <<i, j>> \in {p \in (1..(Len(s) + 1)) \X (0..Len(s)) :
                                                   p[1] <= p[2] + 1 /\ CommaPiece(s, p[1], p[2])}})

CaseInsensitiveEqual(a, b) == to_lowercase(a) = to_lowercase(b)

\* the entry's display name is, compared case-insensitively, a given exclusion
IsExcluded(e) == \E name \in GivenExclusions : CaseInsensitiveEqual(name, e.display_name)

PassesLanguage(e) == args.lang = None \/ e.lang = args.lang[1]

\* s[i..j] is a token of s: a maximal run of alphabetic characters, or the
\* empty string where a separator follows a separator or an end of s
IsToken(s, i, j) ==
    /\ \A k \in i..j : is_alphabetic(s[k])
    /\ i = 1 \/ ~is_alphabetic(s[i - 1])
    /\ j = Len(s) \/ ~is_alphabetic(s[j + 1])

Tokens(s) == {SubSeq(s, p[1], p[2]) : p \in {q \in (1..(Len(s) + 1)) \X (0..Len(s)) :
                                                q[1] <= q[2] + 1 /\ IsToken(s, q[1], q[2])}}

Terms == {args.term[i] : i \in 1..Len(args.term)}

\* C4: an entry whose display name is, compared case-insensitively, in the
\* exclusion list (-x names merged with the comma-separated TWITCH_IGNORE)
\* is never matched, whatever whole_word, all, the terms (the single empty
\* term included) and the language filter are, and no row is pushed for it.
C4_ExclusionPrecedence ==
    (pc = "filtered" /\ IsExcluded(entry[1]))
        => matched = Some(FALSE) /\ table.rows = <<>>

\* C4 witness: an excluded entry that the empty term would match, given in
\* another case than the exclusion
C4_Witness ==
    /\ pc = "filtered"
    /\ IsExcluded(entry[1])
    /\ entry[1].display_name \notin GivenExclusions
    /\ args.term = << <<>> >> /\ ~args.word /\ ~args.all /\ PassesLanguage(entry[1])
    /\ matched = Some(FALSE)

C6_EmptyTermMatchesAll ==
    (pc = "filtered" /\ args.term = << <<>> >> /\ ~args.all
     /\ ~IsExcluded(entry[1]) /\ PassesLanguage(entry[1]))
        => matched = Some(TRUE)

\* C6 amended: with the single empty term and all not set, every entry that
\* is not excluded and passes the language filter is matched for every
\* title when whole_word is not set; with whole_word set it is matched
\* exactly when the title has an empty token (the empty title, a title
\* that starts or ends with a non-alphabetic character or has two of them
\* in a row).
C6_EmptyTermSubstringMode ==
    (pc = "filtered" /\ args.term = << <<>> >> /\ ~args.all
     /\ ~IsExcluded(entry[1]) /\ PassesLanguage(entry[1]))
        => LET title == entry[1].title IN
           IF ~args.word THEN matched = Some(TRUE)
           ELSE matched = Some(\/ title = <<>>
                               \/ ~is_alphabetic(title[1])
                               \/ ~is_alphabetic(title[Len(title)])
                               \/ \E i \in 1..(Len(title) - 1) :
                                      ~is_alphabetic(title[i]) /\ ~is_alphabetic(title[i + 1]))

\* C6 witness: the empty term, substring mode, a title made only of letters
C6_Witness ==
    /\ pc = "filtered" /\ args.term = << <<>> >> /\ ~args.all /\ ~args.word
    /\ ~IsExcluded(entry[1]) /\ PassesLanguage(entry[1])
    /\ entry[1].title = S_abc
    /\ matched = Some(TRUE)

(***************************************************************************)
(* The table on its own (specification SpecTable): any sequence of         *)
(* set_align and push calls on a new table, then print.                    *)
(***************************************************************************)

\* rows pushed: cells of different lengths, empty cells, and cells holding
\* a character of two bytes
TableRows ==
    { <<S_en, S_ab, <<"5">>, <<>>, S_abc>>,
      <<S_fr, S_Eva, <<"1", "2">>, <<"0", "1", ":", "3", "0">>, <<>>>>,
      <<<<>>, <<>>, <<>>, <<>>, S_abc_123_abc>>,
      <<<<"U+00E9">>, S_abc, <<"7">>, <<"x">>, <<"U+00E9">>>>,
      format_row(Entry_from(R_eva, 100)) }

\* number of rows the model pushes
MaxRows == 3

TableInit ==
    /\ pc = "table"
    /\ env = [TWITCH_CLIENT_ID |-> None, TWITCH_CLIENT_SECRET |-> None, TWITCH_IGNORE |-> None]
    /\ args = [term |-> << <<>> >>, exclude |-> None, lang |-> None, all |-> FALSE, word |-> FALSE]
    /\ exclude = <<>>
    /\ access_token = None
    /\ table = Table_new
    /\ total = 0
    /\ page = None
    /\ net = <<>>
    /\ out = <<>>
    /\ err = <<>>
    /\ result = Running
    /\ exit_code = None
    /\ entry = None
    /\ matched = None

\* table.set_align(column, align), for the columns run aligns
TableSetAlign ==
    /\ pc = "table"
    /\ \E column \in {2, 3}, align \in {"Left", "Center", "Right"} :
           table' = Table_set_align(table, column, align)
    /\ UNCHANGED <<pc, env, args, exclude, access_token, total, page, net, out, err,
                   result, exit_code, entry, matched>>

\* table.push(row)
TablePush ==
    /\ pc = "table"
    /\ Table_len(table) < MaxRows
    /\ \E row \in TableRows : table' = Table_push(table, row)
    /\ UNCHANGED <<pc, env, args, exclude, access_token, total, page, net, out, err,
                   result, exit_code, entry, matched>>

\* table.print()
TablePrint ==
    /\ pc = "table"
    /\ out' = out \o [k \in 1..Table_len(table) |-> Line("row", Table_print(table)[k])]
    /\ pc' = "printed"
    /\ UNCHANGED <<env, args, exclude, access_token, table, total, page, net, err,
                   result, exit_code, entry, matched>>

TableNext == TableSetAlign \/ TablePush \/ TablePrint

SpecTable == TableInit /\ [][TableNext]_vars

\* the greatest member of a finite set of naturals, 0 for the empty set
MaxOf(S) == IF S = {} THEN 0 ELSE CHOOSE m \in S : \A x \in S : m >= x

\* C3: from Table::new on, after any sequence of pushes (the empty one
\* included), widths[i] of each column i in 0..3 is the greatest String::len
\* of column i over the rows pushed so far (0 for none, hence never
\* decreasing), and widths[4] stays 0.
C3_WidthInvariant ==
    /\ \A i \in 1..(N - 1) :
           table.widths[i] = MaxOf({str_len(table.rows[k][i]) : k \in 1..Len(table.rows)})
    /\ table.widths[N] = 0

\* C3 witness: three rows pushed, the last one narrower than an earlier one
\* in every tracked column, the last column not empty
C3_Witness ==
    /\ Len(table.rows) = 3
    /\ \A i \in 1..(N - 1) : str_len(table.rows[3][i]) < table.widths[i]
    /\ table.rows[3][N] # <<>>
    /\ \E k \in 1..2 : table.rows[k][N] # <<>>

\* the length of s in a unit: "bytes" is String::len, what push measures;
\* "chars" is chars().count(), what the format width counts
LenIn(unit, s) == IF unit = "bytes" THEN str_len(s) ELSE chars_count(s)

\* the number of leading characters of s that make up n units, -1 if none do
PrefixOf(unit, s, n) ==
    IF \E p \in 0..Len(s) : LenIn(unit, SubSeq(s, 1, p)) = n
    THEN CHOOSE p \in 0..Len(s) : LenIn(unit, SubSeq(s, 1, p)) = n
    ELSE -1

RECURSIVE SumWidths(_, _)
SumWidths(w, i) == IF i = 0 THEN 0 ELSE w[i] + SumWidths(w, i - 1)

\* cell, padded with spaces on the side the alignment leaves free
IsPadded(seg, cell, align) ==
    \E l \in 0..Len(seg), r \in 0..Len(seg) :
        /\ seg = spaces(l) \o cell \o spaces(r)
        /\ align = "Left" => l = 0
        /\ align = "Right" => r = 0
        /\ align = "Center" => r - l \in {0, 1}

\* every line written has, for each column i in 0..3, the cell padded to
\* exactly widths[i] units and then " | ", so that in this unit the
\* separators are at the same offsets in every line; the last column
\* follows as it is
AlignedIn(unit) ==
    \A k \in 1..Len(table.rows) :
        LET line == Written("row")[k].text
            row == table.rows[k]
            from(i) == PrefixOf(unit, line, SumWidths(table.widths, i - 1) + 3 * (i - 1))
            to(i) == PrefixOf(unit, line, SumWidths(table.widths, i) + 3 * (i - 1))
        IN /\ \A i \in 1..(N - 1) :
                  /\ from(i) >= 0 /\ to(i) >= from(i)
                  /\ IsPadded(SubSeq(line, from(i) + 1, to(i)), row[i], table.align[i])
                  /\ SubSeq(line, to(i) + 1, to(i) + 3) = SEPARATOR
           /\ to(N - 1) >= 0 /\ SubSeq(line, to(N - 1) + 4, Len(line)) = row[N]

\* C9: print renders every row, for each column i in 0..3, as a cell of
\* exactly the final widths[i], padded on the right for Left and on the
\* left for Right, followed by " | ", the length being taken in the unit
\* push measures in (String::len), so that the separators are at the same
\* offset in every row also with multi-byte characters; column 4 is
\* written unpadded.
C9_PaddedInTheUnitPushMeasures ==
    pc = "printed" => /\ Len(Written("row")) = Len(table.rows)
                      /\ AlignedIn("bytes")

\* C9, what the code does: the cells are padded to widths[i] characters,
\* widths[i] being a number of bytes
C9_PaddedToWidthInChars ==
    pc = "printed" => /\ Len(Written("row")) = Len(table.rows)
                      /\ AlignedIn("chars")

\* C9: a table whose column 1 holds only a cell of one two-byte character
\* is written with that column two characters wide
C9_WiderThanItsCells ==
    /\ pc = "printed"
    /\ Len(table.rows) >= 1
    /\ \A k \in 1..Len(table.rows) : chars_count(table.rows[k][1]) < table.widths[1]

====
